---- MODULE Spec2Model ----
(***************************************************************************)
(* Model of the expiring cache of cache.go: a sync.Map of items, a linked  *)
(* chain of to-expire keys owned by the cleaner goroutine, the channels    *)
(* close / chainAdd / chainDel, and the cleaner's timer.                   *)
(*                                                                         *)
(* Time is a discrete instant `now`; the zero time.Time is instant 0 and   *)
(* real instants start at 1.  A caller goroutine runs the exported methods *)
(* one sync.Map operation or one channel operation per step, so that every *)
(* interleaving with the cleaner goroutine, the timer, the clock and Close *)
(* is explored.  Spec has one caller goroutine, which writes one key and   *)
(* reads and deletes that key and a key never written; Range, which needs  *)
(* several entries, is explored on its own in SpecRange, and together with *)
(* Get and GetExpires on every store over two keys in SpecReads.  SpecChain *)
(* applies the cleaner's three chain operations to every chain they build  *)
(* from the empty one, with records of two keys.                           *)
(*                                                                         *)
(* A *item[V] in the store is represented by the item it points to: the    *)
(* only comparison made on stored values, in CompareAndDelete, is with an  *)
(* item[K] value, which the dynamic type already decides.                  *)
(*                                                                         *)
(* The timer follows time.Timer with a buffered t.C: the runtime sends on  *)
(* t.C at the deadline, Stop reports false once that has happened.         *)
(***************************************************************************)
EXTENDS Integers, Sequences, FiniteSets, TLC

\* ------------------------------------------------------------------ bounds
MaxTime == 3            \* expiries lie in 0..MaxTime, the clock runs to MaxTime + 1
MaxChain == 2           \* timed writes in flight or in the chain at once

Keys == {"a", "b"}      \* the keys callers pass to Get, GetExpires and Delete
Written == {"a"}        \* the keys callers pass to Set and SetPermanent
Vals == {"v", "w"}
Callers == {"p1"}

ZeroTime == 0           \* time.Time{}
ZeroV == ""             \* var v V
NoKey == ""
ChanCap == 1            \* make(chan ..., 1)

VARIABLES
    items,      \* sync.Map: key -> *item[V], as a function on the stored keys
    chain,      \* linked list of to-expire keys, head first
    closed,     \* TRUE once close(c.close) has run
    chainAdd,   \* buffered channel of keyed[K]
    chainDel,   \* buffered channel of K
    now,        \* timeNow()
    pc,         \* position of each caller goroutine inside a method
    cpc,        \* position of the cleaner goroutine
    timer,      \* the cleaner's time.Timer: armed?, deadline, value in t.C?
    popped,     \* node unlinked by the last iteration of the running sweep
    rng,        \* position of a goroutine inside Range
    hist        \* SpecChain: the last chain operation, its argument and the chain before it

vars == <<items, chain, closed, chainAdd, chainDel, now, pc, cpc, timer, popped, rng, hist>>

\* ------------------------------------------------------------- data types
\* item[T]{data, expires}
Item(d, e) == [data |-> d, expires |-> e]

\* keyed[K]{item: item[K]{data: key, expires: expires}}; next is the position
\* in the sequence
Keyed(k, e) == [data |-> k, expires |-> e]

NoNode == Keyed(NoKey, ZeroTime)

\* interface values carry their dynamic type: sync.Map stores *item[V],
\* the cleaner passes an item[K] value
PtrItemV(it) == [type |-> "*item[V]", data |-> it.data, expires |-> it.expires]
ValItemK(it) == [type |-> "item[K]", data |-> it.data, expires |-> it.expires]

\* item.HasExpired with After in place of Before
HasExpiredAt_After(it, t) == it.expires # ZeroTime /\ it.expires > t

\* item.HasExpired with !After in place of Before
HasExpiredAt_NotAfter(it, t) == it.expires # ZeroTime /\ it.expires <= t

\* item.HasExpired at instant t
HasExpiredAt(it, t) == it.expires # ZeroTime /\ it.expires < t

HasExpired(it) == HasExpiredAt(it, now)

\* ---------------------------------------------------------------- sync.Map
Store(m, k, it) == [x \in (DOMAIN m) \cup {k} |-> IF x = k THEN it ELSE m[x]]

Delete(m, k) == [x \in (DOMAIN m) \ {k} |-> m[x]]

\* a plain c.items.Delete(key) in place of the comparison
CompareAndDelete_KeyOnly(m, k, old) == Delete(m, k)

\* a comparison that only looks for a timed entry under the key
CompareAndDelete_AnyTimed(m, k, old) ==
    IF k \in DOMAIN m /\ m[k].expires # ZeroTime THEN Delete(m, k) ELSE m

\* sync.Map.CompareAndDelete: deletes when the stored interface value == old
CompareAndDelete(m, k, old) ==
    IF k \in DOMAIN m /\ PtrItemV(m[k]) = old THEN Delete(m, k) ELSE m

\* ------------------------------------------------------------------ chain
RECURSIVE InsertWalk(_, _, _)
\* the loop of chainInsert with ring at position i
InsertWalk(ch, i, node) ==
    IF i = Len(ch)
    THEN Append(ch, node)
    ELSE IF ch[i].expires > node.expires
         THEN SubSeq(ch, 1, i) \o <<node>> \o SubSeq(ch, i + 1, Len(ch))
         ELSE InsertWalk(ch, i + 1, node)

chainInsert(ch, node) ==
    IF ch = <<>> THEN <<node>> ELSE InsertWalk(ch, 1, node)

RECURSIVE SpliceWalk(_, _, _)
\* the loop of chainSplice with ring at position i
SpliceWalk(ch, i, key) ==
    IF i = Len(ch)
    THEN ch
    ELSE IF ch[i + 1].data = key
         THEN SubSeq(ch, 1, i) \o SubSeq(ch, i + 2, Len(ch))
         ELSE SpliceWalk(ch, i + 1, key)

\* chainSplice with the quick paths only, without the loop
chainSplice_HeadOnly(ch, key) ==
    IF ch = <<>> THEN ch
    ELSE IF ch[1].data = key THEN Tail(ch)
    ELSE ch

chainSplice(ch, key) ==
    IF ch = <<>> THEN ch
    ELSE IF ch[1].data = key THEN Tail(ch)
    ELSE SpliceWalk(ch, 1, key)

\* ------------------------------------------------------------------ reads
\* GetExpires: <<value, expiry, found>>
GetExpires(key) ==
    IF key \notin DOMAIN items THEN <<ZeroV, ZeroTime, FALSE>>
    ELSE IF HasExpired(items[key]) THEN <<ZeroV, ZeroTime, FALSE>>
    ELSE <<items[key].data, items[key].expires, TRUE>>

\* Get: <<value, found>>
Get(key) == <<GetExpires(key)[1], GetExpires(key)[3]>>

\* the callback of Range with return false on an expired entry
RangeVisitor_StopOnExpired(k, fret) ==
    IF HasExpired(items[k]) THEN <<FALSE, FALSE>> ELSE <<TRUE, fret>>

\* Range: the callback of c.items.Range on the entry of key k, with fret the
\* value f returns when it is called: <<f called?, continue?>>
RangeVisitor(k, fret) ==
    IF HasExpired(items[k]) THEN <<FALSE, TRUE>> ELSE <<TRUE, fret>>

\* no Range is running; calls lists the calls of f made by the last one
RngIdle == [op |-> "idle", todo |-> <<>>, calls |-> <<>>, cont |-> TRUE]

\* ------------------------------------------------------------------ timer
\* time.NewTimer / t.Reset with timeUntil(expires): deadline is expires
Armed(e) == [active |-> TRUE, when |-> e, C |-> FALSE]

NoTimer == [active |-> FALSE, when |-> ZeroTime, C |-> FALSE]

\* a caller's frame: the method it is in and that method's locals
Frame(o, k, v, e, f) == [op |-> o, key |-> k, val |-> v, exp |-> e, found |-> f]

Idle == Frame("idle", NoKey, ZeroV, ZeroTime, FALSE)

\* no chain operation has been applied
NoHist == [op |-> "none", node |-> NoNode, chain |-> <<>>]

Init ==
    /\ items = <<>>
    /\ chain = <<>>
    /\ closed = FALSE
    /\ chainAdd = <<>>
    /\ chainDel = <<>>
    /\ now = 1
    /\ pc = [p \in Callers |-> Idle]
    /\ cpc = "boot"
    /\ timer = NoTimer
    /\ popped = NoNode
    /\ rng = RngIdle
    /\ hist = NoHist

\* timed writes that still occupy or will occupy a chain slot
InFlight ==
    Len(chain) + Len(chainAdd)
    + Cardinality({p \in Callers : pc[p].op \in {"setStore", "setSend"}})

\* ---------------------------------------------------------------- callers
\* Close: close(c.close)
Close ==
    /\ ~closed
    /\ closed' = TRUE
    /\ UNCHANGED <<items, chain, chainAdd, chainDel, now, pc, cpc, timer, popped, rng, hist>>

\* SetPermanent, the closed check
SetPermanentBegin(p, k, v) ==
    /\ pc[p].op = "idle"
    /\ pc' = IF closed THEN pc
             ELSE [pc EXCEPT ![p] = Frame("permStore", k, v, ZeroTime, FALSE)]
    /\ UNCHANGED <<items, chain, closed, chainAdd, chainDel, now, cpc, timer, popped, rng, hist>>

\* SetPermanent, c.items.Store
SetPermanentStore(p) ==
    /\ pc[p].op = "permStore"
    /\ items' = Store(items, pc[p].key, Item(pc[p].val, ZeroTime))
    /\ pc' = [pc EXCEPT ![p] = Idle]
    /\ UNCHANGED <<chain, closed, chainAdd, chainDel, now, cpc, timer, popped, rng, hist>>

\* Set without the expires.Before(timeNow()) check
SetBegin_NoTimeCheck(p, k, v, e) ==
    /\ pc[p].op = "idle"
    /\ InFlight < MaxChain
    /\ pc' = IF closed THEN pc
             ELSE [pc EXCEPT ![p] = Frame("setStore", k, v, e, FALSE)]
    /\ UNCHANGED <<items, chain, closed, chainAdd, chainDel, now, cpc, timer, popped, rng, hist>>

\* Set, the closed check and the expires.Before(timeNow()) check
SetBegin(p, k, v, e) ==
    /\ pc[p].op = "idle"
    /\ InFlight < MaxChain
    /\ pc' = IF closed \/ e < now THEN pc
             ELSE [pc EXCEPT ![p] = Frame("setStore", k, v, e, FALSE)]
    /\ UNCHANGED <<items, chain, closed, chainAdd, chainDel, now, cpc, timer, popped, rng, hist>>

\* Set, c.items.Store
SetStore(p) ==
    /\ pc[p].op = "setStore"
    /\ items' = Store(items, pc[p].key, Item(pc[p].val, pc[p].exp))
    /\ pc' = [pc EXCEPT ![p].op = "setSend", ![p].val = ZeroV]
    /\ UNCHANGED <<chain, closed, chainAdd, chainDel, now, cpc, timer, popped, rng, hist>>

\* Set, c.chainAdd <- keyed[K]{...}; blocks while the buffer is full
SetSend(p) ==
    /\ pc[p].op = "setSend"
    /\ Len(chainAdd) < ChanCap
    /\ chainAdd' = Append(chainAdd, Keyed(pc[p].key, pc[p].exp))
    /\ pc' = [pc EXCEPT ![p] = Idle]
    /\ UNCHANGED <<items, chain, closed, chainDel, now, cpc, timer, popped, rng, hist>>

\* Delete without the closed check
DeleteBegin_NoCloseCheck(p, k) ==
    /\ pc[p].op = "idle"
    /\ pc' = [pc EXCEPT ![p] = Frame("delStore", k, ZeroV, ZeroTime, FALSE)]
    /\ UNCHANGED <<items, chain, closed, chainAdd, chainDel, now, cpc, timer, popped, rng, hist>>

\* Delete, the closed check
DeleteBegin(p, k) ==
    /\ pc[p].op = "idle"
    /\ pc' = IF closed THEN pc
             ELSE [pc EXCEPT ![p] = Frame("delStore", k, ZeroV, ZeroTime, FALSE)]
    /\ UNCHANGED <<items, chain, closed, chainAdd, chainDel, now, cpc, timer, popped, rng, hist>>

\* Delete that forgets c.items.Delete
DeleteStore_SendOnly(p) ==
    /\ pc[p].op = "delStore"
    /\ pc' = [pc EXCEPT ![p].op = "delSend"]
    /\ UNCHANGED <<items, chain, closed, chainAdd, chainDel, now, cpc, timer, popped, rng, hist>>

\* Delete, c.items.Delete
DeleteStore(p) ==
    /\ pc[p].op = "delStore"
    /\ items' = Delete(items, pc[p].key)
    /\ pc' = [pc EXCEPT ![p].op = "delSend"]
    /\ UNCHANGED <<chain, closed, chainAdd, chainDel, now, cpc, timer, popped, rng, hist>>

\* Delete, c.chainDel <- key; blocks while the buffer is full
DeleteSend(p) ==
    /\ pc[p].op = "delSend"
    /\ Len(chainDel) < ChanCap
    /\ chainDel' = Append(chainDel, pc[p].key)
    /\ pc' = [pc EXCEPT ![p] = Idle]
    /\ UNCHANGED <<items, chain, closed, chainAdd, now, cpc, timer, popped, rng, hist>>

\* GetExpires that deletes the expired entry it finds
CallGetExpires_Evict(p, k) ==
    /\ pc[p].op = "idle"
    /\ pc' = [pc EXCEPT ![p] = Frame("retGetExpires", k, GetExpires(k)[1],
                                      GetExpires(k)[2], GetExpires(k)[3])]
    /\ items' = IF k \in DOMAIN items /\ HasExpired(items[k])
                THEN Delete(items, k) ELSE items
    /\ UNCHANGED <<chain, closed, chainAdd, chainDel, now, cpc, timer, popped, rng, hist>>

\* GetExpires called by p: the Load and the HasExpired check
CallGetExpires(p, k) ==
    /\ pc[p].op = "idle"
    /\ pc' = [pc EXCEPT ![p] = Frame("retGetExpires", k, GetExpires(k)[1],
                                      GetExpires(k)[2], GetExpires(k)[3])]
    /\ UNCHANGED <<items, chain, closed, chainAdd, chainDel, now, cpc, timer, popped, rng, hist>>

\* Get called by p
CallGet(p, k) ==
    /\ pc[p].op = "idle"
    /\ pc' = [pc EXCEPT ![p] = Frame("retGet", k, Get(k)[1], ZeroTime, Get(k)[2])]
    /\ UNCHANGED <<items, chain, closed, chainAdd, chainDel, now, cpc, timer, popped, rng, hist>>

\* the caller takes the result of a read
Return(p) ==
    /\ pc[p].op \in {"retGetExpires", "retGet"}
    /\ pc' = [pc EXCEPT ![p] = Idle]
    /\ UNCHANGED <<items, chain, closed, chainAdd, chainDel, now, cpc, timer, popped, rng, hist>>

\* ------------------------------------------------------------------ Range
\* c.items.Range starts: sync.Map visits the stored keys in some order
RangeBegin(order) ==
    /\ rng.op = "idle"
    /\ rng' = [op |-> "iter", todo |-> order, calls |-> <<>>, cont |-> TRUE]
    /\ UNCHANGED <<items, chain, closed, chainAdd, chainDel, now, pc, cpc, timer, popped, hist>>

\* sync.Map hands the next entry to the callback; f answers fret if called
RangeVisit(fret) ==
    /\ rng.op = "iter"
    /\ rng.todo # <<>>
    /\ LET k == Head(rng.todo)
           r == RangeVisitor(k, fret)
       IN rng' = [op |-> IF r[2] THEN "iter" ELSE "idle",
                  todo |-> IF r[2] THEN Tail(rng.todo) ELSE <<>>,
                  calls |-> IF r[1] THEN Append(rng.calls, <<k, items[k].data>>)
                                    ELSE rng.calls,
                  cont |-> r[2]]
    /\ UNCHANGED <<items, chain, closed, chainAdd, chainDel, now, pc, cpc, timer, popped, hist>>

\* every entry has been visited
RangeEnd ==
    /\ rng.op = "iter"
    /\ rng.todo = <<>>
    /\ rng' = [rng EXCEPT !.op = "idle"]
    /\ UNCHANGED <<items, chain, closed, chainAdd, chainDel, now, pc, cpc, timer, popped, hist>>

\* ---------------------------------------------------------------- cleaner
\* the tail of every pass without the t.Reset
AfterPass_NoReset(ch, tm) ==
    IF ch = <<>>
    THEN cpc' = "done" /\ timer' = tm
    ELSE cpc' = "select" /\ timer' = tm

\* the tail of every pass: return on an empty chain, else (re)arm the timer;
\* NewTimer and Reset set the deadline and leave t.C as it is
AfterPass(ch, tm) ==
    IF ch = <<>>
    THEN cpc' = "done" /\ timer' = tm
    ELSE cpc' = "select" /\ timer' = [Armed(ch[1].expires) EXCEPT !.C = tm.C]

\* a cleaner that is started again by an insert instruction after it returned
CleanerBootAdd_Restart ==
    /\ cpc \in {"boot", "done"}
    /\ chainAdd # <<>>
    /\ chain' = chainInsert(chain, Head(chainAdd))
    /\ chainAdd' = Tail(chainAdd)
    /\ AfterPass(chain', NoTimer)
    /\ UNCHANGED <<items, closed, chainDel, now, pc, popped, rng, hist>>

\* bootstrap select, case node := <-c.chainAdd
CleanerBootAdd ==
    /\ cpc = "boot"
    /\ chainAdd # <<>>
    /\ chain' = chainInsert(chain, Head(chainAdd))
    /\ chainAdd' = Tail(chainAdd)
    /\ AfterPass(chain', timer)
    /\ UNCHANGED <<items, closed, chainDel, now, pc, popped, rng, hist>>

\* bootstrap select, case key := <-c.chainDel
CleanerBootDel ==
    /\ cpc = "boot"
    /\ chainDel # <<>>
    /\ chain' = chainSplice(chain, Head(chainDel))
    /\ chainDel' = Tail(chainDel)
    /\ AfterPass(chain', timer)
    /\ UNCHANGED <<items, closed, chainAdd, now, pc, popped, rng, hist>>

\* bootstrap select, default
CleanerBootDefault ==
    /\ cpc = "boot"
    /\ chainAdd = <<>>
    /\ chainDel = <<>>
    /\ AfterPass(chain, timer)
    /\ UNCHANGED <<items, chain, closed, chainAdd, chainDel, now, pc, popped, rng, hist>>

\* case <-c.close that also drops the chain
CleanerClose_ClearChain ==
    /\ cpc = "select"
    /\ closed
    /\ cpc' = "done"
    /\ chain' = <<>>
    /\ UNCHANGED <<items, closed, chainAdd, chainDel, now, pc, timer, popped, rng, hist>>

\* loop select, case <-c.close
CleanerClose ==
    /\ cpc = "select"
    /\ closed
    /\ cpc' = "done"
    /\ UNCHANGED <<items, chain, closed, chainAdd, chainDel, now, pc, timer, popped, rng, hist>>

\* if !t.Stop() { <-t.C }: the timer after it, or blocked on an empty t.C
StopBlocks(tm) == ~tm.active /\ ~tm.C

\* t.Stop() alone, without the <-t.C
Stopped_NoDrain(tm) == [active |-> FALSE, when |-> ZeroTime, C |-> tm.C]

\* the timer after if !t.Stop() { <-t.C } when that does not block
Stopped(tm) == [active |-> FALSE, when |-> ZeroTime, C |-> FALSE]

\* loop select, case node := <-c.chainAdd
CleanerAdd ==
    /\ cpc = "select"
    /\ chainAdd # <<>>
    /\ chainAdd' = Tail(chainAdd)
    /\ IF StopBlocks(timer)
       THEN cpc' = "drain" /\ UNCHANGED <<chain, timer>>
       ELSE /\ chain' = chainInsert(chain, Head(chainAdd))
            /\ AfterPass(chain', Stopped(timer))
    /\ UNCHANGED <<items, closed, chainDel, now, pc, popped, rng, hist>>

\* loop select, case key := <-c.chainDel
CleanerDel ==
    /\ cpc = "select"
    /\ chainDel # <<>>
    /\ chainDel' = Tail(chainDel)
    /\ IF StopBlocks(timer)
       THEN cpc' = "drain" /\ UNCHANGED <<chain, timer>>
       ELSE /\ chain' = chainSplice(chain, Head(chainDel))
            /\ AfterPass(chain', Stopped(timer))
    /\ UNCHANGED <<items, closed, chainAdd, now, pc, popped, rng, hist>>

\* loop select, case <-t.C
CleanerTimer ==
    /\ cpc = "select"
    /\ timer.C
    /\ timer' = [timer EXCEPT !.C = FALSE]
    /\ IF chain = <<>>
       THEN cpc' = "done"
       ELSE cpc' = "sweep"
    /\ UNCHANGED <<items, chain, closed, chainAdd, chainDel, now, pc, popped, rng, hist>>

\* one iteration of: for c.chain != nil && c.chain.HasExpired()
CleanerSweepPop ==
    /\ cpc = "sweep"
    /\ chain # <<>>
    /\ HasExpired(Head(chain))
    /\ items' = CompareAndDelete(items, Head(chain).data, ValItemK(Head(chain)))
    /\ chain' = Tail(chain)
    /\ popped' = Head(chain)
    /\ UNCHANGED <<closed, chainAdd, chainDel, now, pc, cpc, timer, rng, hist>>

\* a sweep loop that may end while the head has expired
CleanerSweepEnd_Early ==
    /\ cpc = "sweep"
    /\ AfterPass(chain, timer)
    /\ popped' = NoNode
    /\ UNCHANGED <<items, chain, closed, chainAdd, chainDel, now, pc, rng, hist>>

\* the sweep loop ends
CleanerSweepEnd ==
    /\ cpc = "sweep"
    /\ ~(chain # <<>> /\ HasExpired(Head(chain)))
    /\ AfterPass(chain, timer)
    /\ popped' = NoNode
    /\ UNCHANGED <<items, chain, closed, chainAdd, chainDel, now, pc, rng, hist>>

\* ------------------------------------------------------------ environment
\* the runtime fires the timer at or after its deadline: sends on t.C
TimerFire ==
    /\ timer.active
    /\ now >= timer.when
    /\ timer' = [active |-> FALSE, when |-> ZeroTime, C |-> TRUE]
    /\ UNCHANGED <<items, chain, closed, chainAdd, chainDel, now, pc, cpc, popped, rng, hist>>

\* the clock advances
Tick ==
    /\ now <= MaxTime
    /\ now' = now + 1
    /\ UNCHANGED <<items, chain, closed, chainAdd, chainDel, pc, cpc, timer, popped, rng, hist>>

Cleaner ==
    \/ CleanerBootAdd
    \/ CleanerBootDel
    \/ CleanerBootDefault
    \/ CleanerClose
    \/ CleanerAdd
    \/ CleanerDel
    \/ CleanerTimer
    \/ CleanerSweepPop
    \/ CleanerSweepEnd

Next ==
    \/ Close
    \/ \E p \in Callers, k \in Written, v \in Vals : SetPermanentBegin(p, k, v)
    \/ \E p \in Callers : SetPermanentStore(p)
    \/ \E p \in Callers, k \in Written, v \in Vals, e \in 0..MaxTime : SetBegin(p, k, v, e)
    \/ \E p \in Callers : SetStore(p)
    \/ \E p \in Callers : SetSend(p)
    \/ \E p \in Callers, k \in Keys : DeleteBegin(p, k)
    \/ \E p \in Callers : DeleteStore(p)
    \/ \E p \in Callers : DeleteSend(p)
    \/ \E p \in Callers, k \in Keys : CallGetExpires(p, k)
    \/ \E p \in Callers, k \in Keys : CallGet(p, k)
    \/ \E p \in Callers : Return(p)
    \/ Cleaner
    \/ TimerFire
    \/ Tick

Spec == Init /\ [][Next]_vars

\* The Go scheduler runs every runnable goroutine, the runtime delivers a due
\* timer and the clock advances; starting a call is left to the callers.
\* select picks uniformly at random among the cases that can proceed, so the
\* timer case of the cleaner's loop, which every instruction received disables
\* (Stop) and enables again (Reset past the deadline), is taken in the end.
Fairness ==
    /\ WF_vars(Cleaner)
    /\ SF_vars(CleanerTimer)
    /\ WF_vars(TimerFire)
    /\ WF_vars(Tick)
    /\ \A p \in Callers :
          /\ WF_vars(SetPermanentStore(p))
          /\ WF_vars(SetStore(p))
          /\ WF_vars(SetSend(p))
          /\ WF_vars(DeleteStore(p))
          /\ WF_vars(DeleteSend(p))
          /\ WF_vars(Return(p))

FairSpec == Spec /\ Fairness

\* ------------------------------------------------- Range on its own
RangeKeys == {"a", "b"}

\* the stores Set and SetPermanent can build over RangeKeys
RangeStores ==
    UNION {[D -> [data : Vals, expires : 0..MaxTime]] : D \in SUBSET RangeKeys}

\* the orders in which sync.Map.Range may visit the keys of S
Orders(S) ==
    {o \in [1..Cardinality(S) -> S] : \A i, j \in DOMAIN o : i # j => o[i] # o[j]}

InitRange ==
    /\ items \in RangeStores
    /\ now \in 1..(MaxTime + 1)
    /\ chain = <<>>
    /\ closed = FALSE
    /\ chainAdd = <<>>
    /\ chainDel = <<>>
    /\ pc = [p \in Callers |-> Idle]
    /\ cpc = "done"
    /\ timer = NoTimer
    /\ popped = NoNode
    /\ rng = RngIdle
    /\ hist = NoHist

NextRange ==
    \/ \E order \in Orders(DOMAIN items) : RangeBegin(order)
    \/ \E fret \in BOOLEAN : RangeVisit(fret)
    \/ RangeEnd
    \/ Tick

SpecRange == InitRange /\ [][NextRange]_vars

\* ------------------------------------------------- reads on their own
\* Get, GetExpires and Range on every store over RangeKeys at every instant
NextReads ==
    \/ \E p \in Callers, k \in RangeKeys : CallGetExpires(p, k)
    \/ \E p \in Callers, k \in RangeKeys : CallGet(p, k)
    \/ \E p \in Callers : Return(p)
    \/ \E order \in Orders(DOMAIN items) : RangeBegin(order)
    \/ \E fret \in BOOLEAN : RangeVisit(fret)
    \/ RangeEnd
    \/ Tick

SpecReads == InitRange /\ [][NextReads]_vars

\* ------------------------------------------------- the chain on its own
MaxLen == MaxChain + 1  \* longest chain SpecChain builds

\* the records Set sends: a key and a non-zero expiry
Nodes == {Keyed(k, e) : k \in Keys, e \in 1..MaxTime}

\* c.chainInsert(node), as the cleaner calls it on an insert instruction
ChainInsertStep(node) ==
    /\ Len(chain) < MaxLen
    /\ chain' = chainInsert(chain, node)
    /\ hist' = [op |-> "insert", node |-> node, chain |-> chain]
    /\ UNCHANGED <<items, closed, chainAdd, chainDel, now, pc, cpc, timer, popped, rng>>

\* c.chainSplice(key), as the cleaner calls it on a delete instruction
ChainSpliceStep(key) ==
    /\ chain' = chainSplice(chain, key)
    /\ hist' = [op |-> "splice", node |-> Keyed(key, ZeroTime), chain |-> chain]
    /\ UNCHANGED <<items, closed, chainAdd, chainDel, now, pc, cpc, timer, popped, rng>>

\* c.chain = c.chain.next, as the sweep does on an expired head
ChainPopStep ==
    /\ chain # <<>>
    /\ chain' = Tail(chain)
    /\ hist' = [op |-> "pop", node |-> Head(chain), chain |-> chain]
    /\ UNCHANGED <<items, closed, chainAdd, chainDel, now, pc, cpc, timer, popped, rng>>

NextChain ==
    \/ \E node \in Nodes : ChainInsertStep(node)
    \/ \E key \in Keys : ChainSpliceStep(key)
    \/ ChainPopStep

\* every chain the cleaner's three chain operations can build from nil
SpecChain == Init /\ [][NextChain]_vars

TypeOK ==
    /\ DOMAIN items \subseteq Keys
    /\ Len(chain) <= MaxChain
    /\ Len(chainAdd) <= ChanCap
    /\ Len(chainDel) <= ChanCap
    /\ now \in 1..(MaxTime + 1)
    /\ cpc \in {"boot", "select", "sweep", "drain", "done"}

\* ================================================================= claims
Expiries == 0..MaxTime

\* the entry stored under k is a timed one
Timed(k) == k \in DOMAIN items /\ items[k].expires # ZeroTime

\* the entry stored under k is a permanent one
Permanent(k) == k \in DOMAIN items /\ items[k].expires = ZeroTime

NotFound == <<ZeroV, ZeroTime, FALSE>>

\* a caller's sync.Map write on key k happens in this step
CallerStoreOn(k) ==
    \E p \in Callers :
        /\ pc[p].key = k
        /\ SetStore(p) \/ SetPermanentStore(p) \/ DeleteStore(p)

\* C1 as stated: a timed entry with expiry e is returned by Get and GetExpires
\* while now < e and is reported not found once now >= e, now = e included.
C1_LazyExpiryInclusive ==
    \A k \in Keys : Timed(k) =>
        /\ now < items[k].expires =>
              /\ GetExpires(k) = <<items[k].data, items[k].expires, TRUE>>
              /\ Get(k) = <<items[k].data, TRUE>>
        /\ now >= items[k].expires =>
              /\ GetExpires(k) = NotFound
              /\ Get(k) = <<ZeroV, FALSE>>

\* C1 amended: a timed entry with expiry e is returned by Get and GetExpires
\* while now <= e and is reported not found once now > e, in every state of the
\* cleaner.
C1_LazyExpiry ==
    \A k \in Keys : Timed(k) =>
        /\ now <= items[k].expires =>
              /\ GetExpires(k) = <<items[k].data, items[k].expires, TRUE>>
              /\ Get(k) = <<items[k].data, TRUE>>
        /\ now > items[k].expires =>
              /\ GetExpires(k) = NotFound
              /\ Get(k) = <<ZeroV, FALSE>>

\* a Get executed at the instant of the entry's expiry has found it, and a
\* GetExpires has been executed in a state the cleaner has left
C1_Witness ==
    \E p \in Callers :
        /\ pc[p].op = "retGet"
        /\ pc[p].found
        /\ Timed(pc[p].key)
        /\ items[pc[p].key].expires = now
        /\ cpc = "done"

\* the effect of a rejected Set: the call has returned and nothing moved
SetRejected == UNCHANGED <<items, chain, chainAdd, chainDel, pc>>

\* C2 as stated: on an open cache Set is rejected whenever expires <= now:
\* store, chain and chainAdd are unchanged and the call has returned.
C2_RejectsNotLater ==
    [][\A p \in Callers, k \in Written, v \in Vals, e \in Expiries :
          (~closed /\ e <= now /\ SetBegin(p, k, v, e)) => SetRejected]_vars

\* C2 amended: on an open cache Set is rejected whenever expires < now (store,
\* chain and chainAdd unchanged, the call has returned, so Get still returns
\* what it returned before), and a Set with expires >= now goes on to its
\* Store with the key, value and expiry it was given.
C2_RejectsEarlier ==
    [][\A p \in Callers, k \in Written, v \in Vals, e \in Expiries :
          /\ (~closed /\ e < now /\ SetBegin(p, k, v, e)) =>
                (SetRejected /\ \A x \in Keys : GetExpires(x)' = GetExpires(x))
          /\ (~closed /\ e >= now /\ SetBegin(p, k, v, e)) =>
                pc'[p] = Frame("setStore", k, v, e, FALSE)]_vars

\* the state a rejected Set leaves: open cache, an expiry earlier than now
\* exists, the caller is back, and the key still holds the entry Get finds
C2_Witness ==
    \E p \in Callers, k \in Keys :
        /\ ~closed
        /\ now > 1
        /\ pc[p].op = "idle"
        /\ InFlight < MaxChain
        /\ GetExpires(k)[3]

\* C3: a permanent entry is found by Get at every instant, no step other than
\* a caller's Store or Delete on its key changes or removes it, in particular
\* no sweep of a stale chain record for its key, and SetPermanent touches
\* neither the chain nor the instruction channels.
C3_PermanentNeverReclaimed ==
    /\ [](\A k \in Keys : Permanent(k) => Get(k) = <<items[k].data, TRUE>>)
    /\ [][\A k \in Keys : (Permanent(k) /\ ~CallerStoreOn(k)) =>
              (k \in DOMAIN items' /\ items'[k] = items[k])]_vars
    /\ [][\A p \in Callers :
              ((\E k \in Keys, v \in Vals : SetPermanentBegin(p, k, v))
                  \/ SetPermanentStore(p))
              => UNCHANGED <<chain, chainAdd, chainDel>>]_vars

\* the sweep has just popped an expired record of a key whose entry is permanent
C3_Witness ==
    /\ cpc = "sweep"
    /\ popped # NoNode
    /\ Permanent(popped.data)
    /\ Get(popped.data)[2]

\* C4: the sweep of a chain record whose expiry is earlier than the expiry of
\* the entry now stored under its key leaves that entry in the store, and a
\* timed entry is found by Get with its value at every instant before its
\* expiry.
C4_OverwriteSupersedes ==
    /\ [](\A k \in Keys : (Timed(k) /\ now < items[k].expires) =>
              Get(k) = <<items[k].data, TRUE>>)
    /\ [][CleanerSweepPop =>
              LET r == Head(chain)
              IN (Timed(r.data) /\ items[r.data].expires > r.expires) =>
                     (r.data \in DOMAIN items' /\ items'[r.data] = items[r.data])]_vars

\* the record of the first Set (expiry e1) has been swept at an instant t with
\* e1 <= t < e2 and Get still finds the entry of the second Set (expiry e2)
C4_Witness ==
    /\ cpc = "sweep"
    /\ popped # NoNode
    /\ Timed(popped.data)
    /\ popped.expires < items[popped.data].expires
    /\ popped.expires <= now
    /\ now < items[popped.data].expires
    /\ Get(popped.data) = <<items[popped.data].data, TRUE>>

\* C5: when the sweep pops an expired record and the store holds a timed entry
\* under the record's key with the record's expiry, the key is no longer in
\* the store afterwards.
C5_SweepRemovesExpired ==
    [][CleanerSweepPop =>
          LET r == Head(chain)
          IN (Timed(r.data) /\ items[r.data].expires = r.expires) =>
                 r.data \notin DOMAIN items']_vars

\* a Set or a Delete is under way, or its instruction waits in a channel
WriteInFlight ==
    \/ chainAdd # <<>>
    \/ chainDel # <<>>
    \/ \E p \in Callers : pc[p].op \in {"setStore", "setSend", "delStore", "delSend"}

\* the chain holds no record of key k
NoRecord(k) == \A i \in DOMAIN chain : chain[i].data # k

\* C6: the Store step of Delete(k) leaves k not found, k stays not found until
\* a caller's Store on k, and on a cache that stays open the chain eventually
\* holds no record of k once Delete(k) has removed the store entry, also when
\* the chain holds several records of k.
C6_DeleteHidesAndUnschedules ==
    /\ [][\A p \in Callers :
              DeleteStore(p) => GetExpires(pc[p].key)' = NotFound]_vars
    /\ [][\A k \in Keys :
              (GetExpires(k) = NotFound /\ GetExpires(k)' # NotFound) =>
                  \E p \in Callers :
                      pc[p].key = k /\ (SetStore(p) \/ SetPermanentStore(p))]_vars
    /\ \A k \in Written :
          ((\E p \in Callers : pc[p].op = "delSend" /\ pc[p].key = k) /\ ~closed)
              ~> (NoRecord(k) \/ closed)

\* Delete(k) has removed the entry while the chain holds two records of k
C6_Witness ==
    \E p \in Callers :
        /\ pc[p].op = "delSend"
        /\ ~closed
        /\ Len(chain) >= 2
        /\ \A i \in DOMAIN chain : chain[i].data = pc[p].key
        /\ GetExpires(pc[p].key) = NotFound

\* every chain record's expiry has passed on an open cache with no Set or
\* Delete in flight
AllPassed ==
    /\ ~closed
    /\ chain # <<>>
    /\ \A i \in DOMAIN chain : chain[i].expires <= now
    /\ ~WriteInFlight

\* C7: on an open cache, once the expiry of every chain record has passed,
\* the chain becomes empty and the cleaner returns, unless the cache is closed
\* or a further Set or Delete arrives first.
C7_ChainDrains ==
    AllPassed ~> ((chain = <<>> /\ cpc = "done") \/ closed \/ WriteInFlight)

\* every record has been swept: the sweep has popped the last one, the chain
\* is empty and the cleaner is about to return
C7_Witness ==
    /\ cpc = "sweep"
    /\ popped # NoNode
    /\ chain = <<>>
    /\ ~closed
    /\ ~WriteInFlight

\* C8: a producer never waits on a full chainAdd of an open cache whose
\* cleaner has returned on an empty chain (nothing would ever receive, so the
\* second of two sends would block forever).
C8_SecondSendCompletes ==
    ~(/\ cpc = "done"
      /\ ~closed
      /\ chain = <<>>
      /\ Len(chainAdd) = ChanCap
      /\ \E p \in Callers : pc[p].op = "setSend")

\* a caller starts SetPermanent, Set or Delete in this step
WriteBegins(p) ==
    \/ \E k \in Keys, v \in Vals : SetPermanentBegin(p, k, v)
    \/ \E k \in Keys, v \in Vals, e \in Expiries : SetBegin(p, k, v, e)
    \/ \E k \in Keys : DeleteBegin(p, k)

\* no write that started before Close still has its Store ahead
NoStoreAhead ==
    \A p \in Callers : pc[p].op \notin {"permStore", "setStore", "delStore"}

\* what GetExpires(k) returns at instant t from the store m
ReadAt(m, k, t) ==
    IF k \in DOMAIN m /\ ~(m[k].expires # ZeroTime /\ m[k].expires < t)
    THEN <<m[k].data, m[k].expires, TRUE>>
    ELSE NotFound

\* C9: after Close a starting SetPermanent, Set or Delete returns at once and
\* leaves store, chain and both channels as they are; once the writes begun
\* before Close have done their Store, Get and GetExpires return at every
\* later instant what the store held, under the lazy-expiry rule.
C9_ClosedWritesNoOp ==
    /\ [][\A p \in Callers :
              (closed /\ pc[p].op = "idle" /\ WriteBegins(p)) =>
                  UNCHANGED <<items, chain, chainAdd, chainDel, pc>>]_vars
    /\ [][(closed /\ NoStoreAhead) =>
              \A k \in Keys :
                  /\ GetExpires(k)' = ReadAt(items, k, now')
                  /\ Get(k)' = <<ReadAt(items, k, now')[1], ReadAt(items, k, now')[3]>>]_vars

\* a closed cache with a readable entry on which a caller can start a write
C9_Witness ==
    \E p \in Callers, k \in Keys :
        /\ closed
        /\ pc[p].op = "idle"
        /\ InFlight < MaxChain
        /\ GetExpires(k)[3]
        /\ Timed(k)

\* sync.Map hands an entry to the callback of Range in this step
Visits == rng.op = "iter" /\ rng.todo # <<>> /\ rng' # rng

\* f is called on nothing, and the iteration goes on
Skipped ==
    rng'.calls = rng.calls /\ rng'.op = "iter" /\ rng'.todo = Tail(rng.todo)

\* f is called on the entry handed over; Range stops iff f returned false
Called(k) ==
    /\ rng'.calls = Append(rng.calls, <<k, items[k].data>>)
    /\ rng'.cont => (rng'.op = "iter" /\ rng'.todo = Tail(rng.todo))
    /\ ~rng'.cont => (rng'.op = "idle" /\ rng'.todo = <<>>)

\* C10 as stated: f is called exactly on permanent entries and entries with
\* expiry later than now; an entry whose expiry is now or earlier is skipped
\* without ending the iteration; Range stops as soon as f returns false.
C10_RangeOnlyLater ==
    [][Visits =>
          LET k == Head(rng.todo)
          IN IF items[k].expires = ZeroTime \/ items[k].expires > now
             THEN Called(k) ELSE Skipped]_vars

\* C10 amended: f is called exactly on permanent entries and entries with
\* expiry now or later; an entry whose expiry is earlier than now is skipped
\* without ending the iteration; Range stops as soon as f returns false, and
\* f is called only while a Range iterates.
C10_RangeSkipsExpired ==
    /\ [][Visits =>
              LET k == Head(rng.todo)
              IN IF items[k].expires = ZeroTime \/ items[k].expires >= now
                 THEN Called(k) ELSE Skipped]_vars
    /\ [][rng.op = "idle" => (rng'.calls = rng.calls \/ rng'.calls = <<>>)]_vars

\* a Range over two entries has skipped the expired one, called f on the
\* other, whose expiry is the current instant, and stopped on f's false
C10_Witness ==
    \E k1, k2 \in RangeKeys :
        /\ k1 # k2
        /\ DOMAIN items = {k1, k2}
        /\ rng.op = "idle"
        /\ ~rng.cont
        /\ rng.calls = <<<<k2, items[k2].data>>>>
        /\ items[k2].expires = now
        /\ HasExpired(items[k1])

\* a caller or a Range takes a step of Get, GetExpires or Range
ReadStep ==
    \/ \E p \in Callers, k \in Keys : CallGetExpires(p, k) \/ CallGet(p, k)
    \/ \E p \in Callers : Return(p)
    \/ \E order \in Orders(DOMAIN items) : RangeBegin(order)
    \/ \E fret \in BOOLEAN : RangeVisit(fret)
    \/ RangeEnd

\* C11: every step of Get, GetExpires and Range leaves the store, the chain,
\* chainAdd, chainDel and the close signal unchanged, on every store and at
\* every instant, also when the entry read has expired.
C11_ReadsArePure ==
    [][ReadStep => UNCHANGED <<items, chain, chainAdd, chainDel, closed>>]_vars

\* GetExpires has reported an expired entry not found and a Range has run to
\* its end calling f on one of two entries, and both entries are in the store
C11_Witness ==
    \E p \in Callers :
        /\ pc[p].op = "retGetExpires"
        /\ ~pc[p].found
        /\ pc[p].key \in DOMAIN items
        /\ HasExpired(items[pc[p].key])
        /\ Cardinality(DOMAIN items) = 2
        /\ rng.op = "idle"
        /\ rng.cont
        /\ Len(rng.calls) = 1

\* C12: the chain is in ascending order of expiry from head to tail.
C12_ChainSorted ==
    \A i, j \in DOMAIN chain : i < j => chain[i].expires <= chain[j].expires

\* the least element of a non-empty set of numbers
MinOf(S) == CHOOSE x \in S : \A y \in S : x <= y

\* the chain with node placed before the first record that expires later
\* than node, at the tail when there is none
InsertSorted(ch, node) ==
    LET later == {i \in DOMAIN ch : ch[i].expires > node.expires}
    IN IF later = {} THEN Append(ch, node)
       ELSE SubSeq(ch, 1, MinOf(later) - 1) \o <<node>>
                \o SubSeq(ch, MinOf(later), Len(ch))

\* C13: chainInsert places the record immediately before the first node
\* whose expiry is strictly later than the record's, at the tail when there
\* is none, and keeps every other node in place.
C13_InsertBeforeFirstLater ==
    [][\A node \in Nodes :
          ChainInsertStep(node) => chain' = InsertSorted(chain, node)]_vars

\* the chain without its first record of key, the chain itself when it has none
RemoveFirst(ch, key) ==
    LET hits == {i \in DOMAIN ch : ch[i].data = key}
    IN IF hits = {} THEN ch
       ELSE SubSeq(ch, 1, MinOf(hits) - 1) \o SubSeq(ch, MinOf(hits) + 1, Len(ch))

\* C14: chainSplice(key) removes exactly the first node of that key, from the
\* head, the middle or the tail, keeps the other nodes in their order, and
\* leaves a chain that is empty or has no node of that key as it is.
C14_SpliceRemovesFirst ==
    [][\A key \in Keys :
          ChainSpliceStep(key) => chain' = RemoveFirst(chain, key)]_vars

\* chainSplice has removed the middle node of a chain of three whose tail has
\* the same key: head and tail are left, in that order
C14_Witness ==
    /\ hist.op = "splice"
    /\ Len(hist.chain) = 3
    /\ hist.chain[1].data # hist.node.data
    /\ hist.chain[2].data = hist.node.data
    /\ hist.chain[3].data = hist.node.data
    /\ chain = <<hist.chain[1], hist.chain[3]>>

\* C15 as stated: the sweep pops a head whose expiry equals now, so when it
\* finishes the chain is empty or the head's expiry is strictly later than now.
C15_SweepPopsUpToNow ==
    [][CleanerSweepEnd => (chain = <<>> \/ Head(chain).expires > now)]_vars

\* C15 amended: the sweep pops the head only while its expiry is strictly
\* earlier than now, so when it finishes the chain is empty or the head's
\* expiry is now or later; a head whose expiry equals now stays.
C15_SweepPopsEarlier ==
    /\ [][CleanerSweepPop => Head(chain).expires < now]_vars
    /\ [][CleanerSweepEnd => (chain = <<>> \/ Head(chain).expires >= now)]_vars

\* the running sweep has popped a record and stops at a head whose expiry is
\* the current instant
C15_Witness ==
    /\ cpc = "sweep"
    /\ popped # NoNode
    /\ chain # <<>>
    /\ Head(chain).expires = now
    /\ popped.expires < now

\* C16: whenever the cleaner waits in the select of its loop the chain is
\* non-empty and the timer has been set for the expiry of the head: it runs
\* to that deadline, or it has fired at or after it and its signal waits in
\* t.C.
C16_ArmedWhileWaiting ==
    cpc = "select" =>
        /\ chain # <<>>
        /\ \/ timer.active /\ ~timer.C /\ timer.when = Head(chain).expires
           \/ ~timer.active /\ timer.C /\ Head(chain).expires <= now

\* the cleaner waits with two records in the chain and the timer running to
\* the head's expiry
C16_Witness ==
    /\ cpc = "select"
    /\ Len(chain) = 2
    /\ chain[1].expires # chain[2].expires
    /\ timer.active
    /\ timer.when = Head(chain).expires
    /\ now < timer.when

\* instructions sent or about to be sent by a Set or Delete under way
PendingInstr ==
    Len(chainAdd) + Len(chainDel)
    + Cardinality({p \in Callers :
                      pc[p].op \in {"setStore", "setSend", "delStore", "delSend"}})

\* C17 as stated: once Close has run the chain stays exactly as it was.
C17_ShutdownImmediate ==
    [][closed => chain' = chain]_vars

\* C17 amended: a cleaner that leaves its select without receiving an
\* instruction or a timer signal does so on close and leaves chain and store
\* as they are; after Close no new instruction is created, so the cleaner
\* applies at most the instructions under way and the sweeps that are due;
\* once it has returned the chain no longer changes; and it returns in the end.
C17_CloseStopsCleaner ==
    /\ [][(cpc = "select" /\ cpc' = "done" /\ UNCHANGED <<chainAdd, chainDel, timer>>)
              => (closed /\ UNCHANGED <<chain, items>>)]_vars
    /\ [][closed => PendingInstr' <= PendingInstr]_vars
    /\ [][(closed /\ cpc = "done") => UNCHANGED <<chain, cpc>>]_vars
    /\ closed ~> (cpc = "done")

\* the cleaner has returned on close: records are left in the chain and an
\* insert instruction is left in chainAdd
C17_Witness ==
    /\ closed
    /\ cpc = "done"
    /\ chain # <<>>
    /\ chainAdd # <<>>

\* caller p waits to send on a full queue
BlockedOnSend(p) ==
    \/ pc[p].op = "setSend" /\ Len(chainAdd) = ChanCap
    \/ pc[p].op = "delSend" /\ Len(chainDel) = ChanCap

C19_TimedWriteScheduled ==
    \A k \in Written, e \in 1..MaxTime :
        ((\E p \in Callers :
              pc[p].op = "setSend" /\ pc[p].key = k /\ pc[p].exp = e) /\ ~closed)
            ~> ((\E i \in DOMAIN chain : chain[i] = Keyed(k, e)) \/ closed)

\* C20: the cleaner never blocks in the <-t.C that follows a failed Stop;
\* after it has applied an instruction and re-armed the timer, t.C is empty
\* and the timer runs to the new head's expiry; and every signal it receives
\* from t.C is one of the deadline of the current head.
C20_DrainBeforeMutate ==
    /\ [](cpc # "drain")
    /\ [][((CleanerAdd \/ CleanerDel) /\ cpc' = "select") =>
              timer' = Armed(Head(chain').expires)]_vars
    /\ [][CleanerTimer => (chain # <<>> /\ Head(chain).expires <= now)]_vars

\* the timer has fired, its signal waits in t.C, and the cleaner is about to
\* handle an insert instruction: Stop will report false
C20_Witness ==
    /\ cpc = "select"
    /\ ~timer.active
    /\ timer.C
    /\ chainAdd # <<>>
    /\ chain # <<>>
    /\ Head(chainAdd).expires < Head(chain).expires
====
